---- MODULE Spec2Model ----
(***************************************************************************)
(* State-machine model of the iDRAC golden-template tool:                  *)
(*   src/src/idrac_common.py  IdracSession (_request, initialize,          *)
(*                            oem_action_uri, poll_job)                    *)
(*   src/src/export_scp.py    export_scp, _extract_scp_content             *)
(*   src/src/import_scp.py    import_scp, import_scp_to_targets            *)
(* The program is single-threaded: pc is the position of the one thread of *)
(* control, top the outermost call in progress.  The controller and the    *)
(* transport are the environment: every answer is drawn with \E.           *)
(***************************************************************************)
EXTENDS Integers, Sequences, FiniteSets, TLC

(* ------------------------------ bounds -------------------------------- *)
\* largest configured connection.retries value (0 .. MaxRetries)
MaxRetries == 3
\* longest target list handed to import_scp_to_targets
MaxTargets == 3
\* largest configured connection.job_timeout, in clock ticks
MaxJobTimeout == 2
\* largest configured connection.poll_interval, in clock ticks (>= 1)
MaxPollInterval == 2
\* width of an address in bits: IPv4 addresses are 32 bits wide, the model
\* keeps the lowest AddrBits of them
AddrBits == 2
\* longest list handed to expand_targets
MaxEntries == 2
\* largest number of groups in the configuration
MaxGroups == 2
\* longest pipeline.steps list
MaxSteps == 2

(* --------------------------- value domains ---------------------------- *)
Addrs == {"10.0.0.1", "10.0.0.2"}
SourceAddr == "10.0.0.5"

\* The class of the session object handed to import_scp / export_scp.
\* "IdracSession" is the class of idrac_common.py, which defines neither
\* check_supported nor detect_generation; "Extended" is a session object
\* that also defines these two methods (import_scp is duck-typed on its
\* session argument).
SessionKinds == {"IdracSession", "Extended"}

TerminalStates == {"Completed", "CompletedWithErrors", "Failed", "Exception"}
\* TaskState values of a task response; "absent" = the key is missing
TaskStates == TerminalStates \cup {"Running", "absent"}

\* Status codes the controller answers with
ProbeStatuses == {200, 401, 503}
SubmitStatuses == {200, 202, 400}

\* Time one HTTP attempt takes, in clock ticks
ReqTimes == {0, 1}

\* Model strings of the manager resource, as sequences of characters
ModelStrings == { <<>>, <<"1", "2", "G">>, <<"1", "3", "G">>, <<"1", "4", "G">>,
                  <<"1", "5", "G">>, <<"1", "6", "G">>, <<"1", "7", "G">>,
                  <<"1", "4", "1", "2">> }

\* One element of a task's Messages array.
\*   Message: the text, by shape:  "absent" the key is missing,
\*            "info" plain text, "<xml" text starting with '<' that holds a
\*            whole SystemConfiguration element, "{json" text starting with '{',
\*            "info<xml" plain text followed by a SystemConfiguration element
\*   profile: Oem.Dell.ServerConfigurationProfile, "absent" or the string
MsgInfo == [Message |-> "info", profile |-> "absent"]
MsgBare == [Message |-> "absent", profile |-> "absent"]
MsgProfile == [Message |-> "info", profile |-> "SCP1"]
MsgProfile2 == [Message |-> "info", profile |-> "SCP2"]
MsgXml == [Message |-> "<xml", profile |-> "absent"]
MsgJson == [Message |-> "{json", profile |-> "absent"]
MsgEmbedded == [Message |-> "info<xml", profile |-> "absent"]
\* the vendor field is there and holds the empty string
MsgEmptyProfile == [Message |-> "<xml", profile |-> ""]

\* Messages arrays of a task that is not Completed
ProgressMessages == { <<>>, <<MsgInfo>>, <<MsgBare>>, <<MsgInfo, MsgInfo>> }
\* Messages arrays of a Completed task
FinalMessages ==
  ProgressMessages \cup
  { <<MsgProfile>>, <<MsgInfo, MsgProfile>>, <<MsgProfile, MsgProfile2>>,
    <<MsgXml>>, <<MsgXml, MsgProfile>>, <<MsgInfo, MsgXml>>, <<MsgJson>>,
    <<MsgEmbedded>>, <<MsgEmptyProfile>> }

SeqsUpTo(S, n) == UNION { [1..k -> S] : k \in 0..n }

\* A response.  json: the body parses as a JSON object; hasModel / hasMessages:
\* the key is present in it; Location: the header is present and non-empty.
NoResp == [status |-> 0, json |-> FALSE, hasModel |-> FALSE, Model |-> <<>>,
           Location |-> FALSE, TaskState |-> "absent",
           hasMessages |-> FALSE, Messages |-> <<>>]

\* Responses to GET MANAGERS_URI
ProbeResponses ==
  { [NoResp EXCEPT !.status = 200, !.json = TRUE, !.hasModel = TRUE, !.Model = m] :
        m \in ModelStrings }
  \cup { [NoResp EXCEPT !.status = s, !.json = j] : s \in ProbeStatuses, j \in BOOLEAN }

\* Responses to POST <OEM action>
SubmitResponses ==
  { [NoResp EXCEPT !.status = s, !.Location = l] : s \in SubmitStatuses, l \in BOOLEAN }

\* Responses to GET TASK_SERVICE_URI/<job id>
TaskResponses ==
  { [NoResp EXCEPT !.status = 200, !.json = TRUE, !.TaskState = t,
                   !.hasMessages = TRUE, !.Messages = m] :
        t \in TaskStates, m \in ProgressMessages }
  \cup { [NoResp EXCEPT !.status = 200, !.json = TRUE, !.TaskState = "Completed",
                   !.hasMessages = TRUE, !.Messages = m] : m \in FinalMessages }
  \cup { [NoResp EXCEPT !.status = 200, !.json = TRUE, !.TaskState = t] : t \in TaskStates }
  \cup { [NoResp EXCEPT !.status = 404, !.json = j] : j \in BOOLEAN }

ResponsesFor(purpose) ==
  CASE purpose = "probe"  -> ProbeResponses
    [] purpose = "submit" -> SubmitResponses
    [] purpose = "status" -> TaskResponses

\* Arguments of export_scp
Formats == {"XML", "JSON"}
Includes == {"Default", "IncludeReadOnly"}
\* What open(scp_filepath) finds: "missing", or the content ("" empty, "ws"
\* white space only, otherwise a profile)
FileStates == {"missing", "", "ws", "SCP1"}

\* The largest address (ipaddress: IPv4Address._ALL_ONES)
AllOnes == 2 ^ AddrBits - 1

\* One entry of a targets list, stripped: a single address, a dash range
\* a-b of two address literals, or something that is no address literal
TargetEntries ==
  { [kind |-> "single", a |-> x, b |-> x] : x \in 0..AllOnes }
  \cup { [kind |-> "range", a |-> x, b |-> y] : x \in 0..AllOnes, y \in 0..AllOnes }
  \cup { [kind |-> "malformed", a |-> 0, b |-> 0] }

(* ------------------------------- state -------------------------------- *)
VARIABLES
  session,   \* the session in use: [kind, ip, retries, idrac_version (0 = None)]
  top,       \* outermost call in progress: "idle", "initialize", "export", "import", "targets"
  pc,        \* position of the thread of control
  retries,   \* import_scp_to_targets: conn.get("retries", 3)
  req,       \* frame of _request: [purpose, method, uri, body, attempt, last_exc, state] and its
             \* history: made (attempts made), answered (attempts answered by an HTTP
             \* response), sleeps (the waits slept, in order)
  resp,      \* the response _request handed to its caller
  poll,      \* frame of poll_job: [poll_interval, job_timeout, log, state]
  now,       \* time.time() - start of the running poll_job, in ticks
  wire,      \* every <<method, uri>> put on the wire by the current call
  written,   \* what export_scp wrote to its file ("none": nothing)
  exp,       \* frame of export_scp: [include, export_format, strategy, scp_content]
  outcome,   \* how the call ended: [op, how, value, exc]
  targets,   \* import_scp_to_targets: the targets argument
  idx,       \* import_scp_to_targets: number of targets processed so far
  results,   \* import_scp_to_targets: the results dict, <<ip, ok>> pairs in insertion order
  calls,     \* per processed target, in order, how its import_scp call ended
  expand,    \* frame of expand_targets: [targets, i, expanded, state, exc]
  cli        \* a run of main.py: its arguments and configuration, the position of
             \* main / cmd_pipeline / cmd_export / cmd_import / cmd_validate, the
             \* calls made so far and the exit status

vars == <<session, top, pc, retries, req, resp, poll, now, wire, written, exp, outcome,
          targets, idx, results, calls, expand, cli>>

(* ------------------------------ helpers ------------------------------- *)
NoReq == [purpose |-> "none", method |-> "none", uri |-> "none", body |-> "none",
          attempt |-> 0, made |-> 0, answered |-> 0, last_exc |-> "None",
          sleeps |-> <<>>, state |-> "idle"]
NoPoll == [poll_interval |-> 0, job_timeout |-> 0, log |-> <<>>, state |-> "idle"]
NoOutcome == [op |-> "none", how |-> "none", value |-> "none", exc |-> "none"]
NoSession == [kind |-> "none", ip |-> "none", retries |-> 0, idrac_version |-> 0,
              probed200 |-> FALSE]
\* export_scp's locals before they are read or assigned; strategy: the
\* strategy of _extract_scp_content that returned (0: none did, line 141)
NoExp == [include |-> "none", export_format |-> "none", strategy |-> 0,
          scp_content |-> "none"]

\* expand_targets is not running
NoExpand == [targets |-> <<>>, i |-> 0, expanded |-> <<>>, state |-> "idle", exc |-> "none"]

\* main.py is not running.
\*   pos          position of the thread of control in main.py
\*   command, group_arg, file_arg   the command line (args.command, args.group,
\*                args.file)
\*   creds        IDRAC_USERNAME / IDRAC_PASSWORD: "unread", "set" or "missing"
\*   steps, si    pipeline.steps and the number of steps done
\*   groups       the groups of the configuration, in order; a field of a group
\*                is "unread" until the program reads it
\*   act, ctx     the cmd_ function running and who called it ("main", "step":
\*                a pipeline step, "apply": the apply command or step)
\*   garg, scp_filepath   its group_name and scp_filepath arguments
\*   sel, gi      its selected groups (indices) and how many it has done
\*   all_ok, ret  cmd_import's all_ok and the value it returned last
\*   exported, ai, apply_ok   apply: cmd_export's result, imports done, all_ok
\*   log          the calls made so far, in order
\*   exit, why    the exit status ("0", "1", "raised": an exception ended the
\*                run) and what caused it
NoCli == [pos |-> "off", command |-> "none", group_arg |-> "None", file_arg |-> "None",
          creds |-> "unread", steps |-> <<>>, si |-> 0, groups |-> <<>>,
          act |-> "none", ctx |-> "none", garg |-> "None", scp_filepath |-> "None",
          sel |-> <<>>, gi |-> 0, all_ok |-> TRUE, ret |-> "none",
          exported |-> <<>>, ai |-> 0, apply_ok |-> TRUE,
          log |-> <<>>, exit |-> "none", why |-> "none"]

\* IdracSession(...) handing back the session object that is already there
NewIdracSessionReused(kind, ip, r) ==
  IF session.kind = "none"
    THEN [kind |-> kind, ip |-> ip, retries |-> r, idrac_version |-> 0, probed200 |-> FALSE]
    ELSE [session EXCEPT !.kind = kind, !.retries = r]

\* IdracSession.__init__: idrac_version starts as None (0).  probed200
\* remembers that a probe of this session was answered 200.
NewIdracSession(kind, ip, r) ==
  [kind |-> kind, ip |-> ip, retries |-> r, idrac_version |-> 0, probed200 |-> FALSE]

\* The function in progress returns (how = "returned") or lets an exception
\* out (how = "raised") to the caller of the outermost call
Finish(how, value, e) ==
  /\ outcome' = [op |-> IF top = "targets" THEN "import" ELSE top,
                 how |-> how, value |-> value, exc |-> e]
  /\ pc' = "ending"

\* State of the poll_job frame when an exception passes through it
PollAborted == IF poll.state = "running" THEN [poll EXCEPT !.state = "raised"] ELSE poll

Init ==
  /\ session = NoSession
  /\ top = "idle"
  /\ pc = "idle"
  /\ retries = 0
  /\ req = NoReq
  /\ resp = NoResp
  /\ poll = NoPoll
  /\ now = 0
  /\ wire = {}
  /\ written = "none"
  /\ exp = NoExp
  /\ outcome = NoOutcome
  /\ targets = <<>>
  /\ idx = 0
  /\ results = <<>>
  /\ calls = <<>>
  /\ expand = NoExpand
  /\ cli = NoCli

\* The frames of a call that is over are gone
NoFrames ==
  /\ req' = NoReq
  /\ resp' = NoResp
  /\ poll' = NoPoll
  /\ now' = 0
  /\ wire' = {}
  /\ written' = "none"
  /\ exp' = NoExp

(* ------------------------------ callers ------------------------------- *)
\* A caller constructs a session (main.py _make_session)
NewSession ==
  /\ pc = "idle"
  /\ \E k \in SessionKinds, r \in 0..MaxRetries :
        session' = NewIdracSession(k, SourceAddr, r)
  /\ UNCHANGED <<top, pc, retries, req, resp, poll, now, wire, written, exp, outcome,
                 targets, idx, results, calls>>
  /\ UNCHANGED <<expand, cli>>

\* session.initialize() called directly (main.py cmd_validate)
CallInitialize ==
  /\ pc = "idle"
  /\ session.kind # "none"
  /\ top' = "initialize"
  /\ pc' = "init_entry"
  /\ UNCHANGED <<session, retries, req, resp, poll, now, wire, written, exp, outcome,
                 targets, idx, results, calls>>
  /\ UNCHANGED <<expand, cli>>

\* export_scp(session, ...) (main.py cmd_export)
CallExport ==
  /\ pc = "idle"
  /\ session.kind # "none"
  /\ top' = "export"
  /\ pc' = "exp_entry"
  /\ UNCHANGED <<session, retries, req, resp, poll, now, wire, written, exp, outcome,
                 targets, idx, results, calls>>
  /\ UNCHANGED <<expand, cli>>

\* import_scp(session, scp_filepath, ...) called on a session of the caller
CallImport ==
  /\ pc = "idle"
  /\ session.kind # "none"
  /\ top' = "import"
  /\ pc' = "imp_entry"
  /\ UNCHANGED <<session, retries, req, resp, poll, now, wire, written, exp, outcome,
                 targets, idx, results, calls>>
  /\ UNCHANGED <<expand, cli>>

\* import_scp_to_targets(targets, ..., config)   import_scp.py:107-116
CallImportTargets ==
  /\ pc = "idle"
  /\ top' = "targets"
  /\ pc' = "tgt_loop"
  /\ \E r \in 0..MaxRetries : retries' = r
  /\ \E ts \in SeqsUpTo(Addrs, MaxTargets) : targets' = ts
  /\ idx' = 0
  /\ results' = <<>>
  /\ calls' = <<>>
  /\ session' = NoSession
  /\ UNCHANGED <<req, resp, poll, now, wire, written, exp, outcome>>
  /\ UNCHANGED <<expand, cli>>

\* The outermost call is over: its caller has the outcome, the frames are gone
EndCall ==
  /\ pc = "ending"
  /\ top # "targets"
  /\ top' = "idle"
  /\ pc' = "idle"
  /\ outcome' = NoOutcome
  /\ NoFrames
  /\ UNCHANGED <<session, retries, targets, idx, results, calls>>
  /\ UNCHANGED <<expand, cli>>

\* import_scp_to_targets is over: its caller has the results
EndTargets ==
  /\ pc = "tgt_done"
  /\ top' = "idle"
  /\ pc' = "idle"
  /\ outcome' = NoOutcome
  /\ NoFrames
  /\ session' = NoSession
  /\ retries' = 0
  /\ targets' = <<>>
  /\ idx' = 0
  /\ results' = <<>>
  /\ calls' = <<>>
  /\ UNCHANGED <<expand, cli>>

(* --------------------- IdracSession._request -------------------------- *)
\* get() / post(): enter _request; idrac_common.py:91-96
StartRequest(purpose, method, uri, body) ==
  /\ req' = [purpose |-> purpose, method |-> method, uri |-> uri, body |-> body,
             attempt |-> 1, made |-> 0, answered |-> 0, last_exc |-> "None",
             sleeps |-> <<>>, state |-> "running"]
  /\ pc' = "request"

\* where the caller of get()/post() goes on with the response
AfterRequest ==
  CASE req.purpose = "probe"  -> "init_resp"
    [] req.purpose = "submit" -> IF top = "export" THEN "exp_resp" ELSE "imp_resp"
    [] req.purpose = "status" -> "poll_resp"

\* line 97: the loop runs for attempt in range(1, retries + 1)
InLoop(attempt, r) == attempt <= r

\* line 104: a failed attempt is followed by a sleep
SleepsAfter(attempt, r) == attempt < r

\* BackoffWait counting attempts from 0
BackoffWaitZeroBased(attempt) == 2 ^ (attempt - 1)

\* line 105: wait = 2 ** attempt
BackoffWait(attempt) == 2 ^ attempt

\* What requests.request does on one attempt: it answers with an HTTP
\* response, or raises
Attempts(purpose) ==
  { [kind |-> "response", resp |-> r, exc |-> "none"] : r \in ResponsesFor(purpose) }
  \cup { [kind |-> "exception", resp |-> NoResp, exc |-> e] :
            e \in {"ConnectionError", "ReadTimeout"} }

\* Verdict retrying 5xx responses
VerdictRetriesServerErrors(a) ==
  IF a.kind = "response" THEN (IF a.resp.status >= 500 THEN "retry" ELSE "return")
  ELSE IF a.exc = "ConnectionError" THEN "retry"
  ELSE "propagate"

\* lines 98-103: what _request does with the attempt's result: a response
\* is returned whatever its status (101), a requests ConnectionError is
\* caught (102), any other exception leaves _request
Verdict(a) ==
  IF a.kind = "response" THEN "return"
  ELSE IF a.exc = "ConnectionError" THEN "retry"
  ELSE "propagate"

\* the sleep of lines 104-108 after a failed attempt, as the sequence of
\* waits it adds
Backoff(attempt, r) == IF SleepsAfter(attempt, r) THEN <<BackoffWait(attempt)>> ELSE <<>>
Slept(wait) == IF wait = <<>> THEN 0 ELSE wait[1]

\* time passes only for a running poll_job, which is all that reads the clock
Tick(d) == IF poll.state = "running" THEN now + d ELSE now

\* lines 97-108: one turn of the loop
ReqAttempt ==
  /\ pc = "request"
  /\ InLoop(req.attempt, session.retries)
  /\ wire' = wire \cup {<<req.method, req.uri>>}
  /\ \E a \in Attempts(req.purpose), d \in ReqTimes :
       LET answered == IF a.kind = "response" THEN 1 ELSE 0
       IN CASE Verdict(a) = "return" ->
                 /\ resp' = a.resp
                 /\ now' = Tick(d)
                 /\ req' = [req EXCEPT !.made = @ + 1, !.answered = @ + answered,
                                       !.state = "returned"]
                 /\ pc' = AfterRequest
                 /\ UNCHANGED <<poll, outcome>>
            [] Verdict(a) = "retry" ->
                 /\ req' = [req EXCEPT !.made = @ + 1, !.answered = @ + answered,
                                       !.attempt = @ + 1, !.last_exc = a.exc,
                                       !.sleeps = @ \o Backoff(req.attempt, session.retries)]
                 /\ now' = Tick(d + Slept(Backoff(req.attempt, session.retries)))
                 /\ UNCHANGED <<resp, pc, poll, outcome>>
            [] Verdict(a) = "propagate" ->
                 /\ req' = [req EXCEPT !.made = @ + 1, !.state = "raised"]
                 /\ poll' = PollAborted
                 /\ Finish("raised", "none", a.exc)
                 /\ UNCHANGED <<resp, now>>
  /\ UNCHANGED <<session, top, retries, written, exp, targets, idx, results, calls>>
  /\ UNCHANGED <<expand, cli>>

\* line 109: the loop is over without a response
ReqExhausted ==
  /\ pc = "request"
  /\ ~InLoop(req.attempt, session.retries)
  /\ req' = [req EXCEPT !.state = "raised"]
  /\ poll' = PollAborted
  /\ Finish("raised", req.last_exc, "ConnectionError")
  /\ UNCHANGED <<session, top, retries, resp, now, wire, written, exp, targets, idx, results, calls>>
  /\ UNCHANGED <<expand, cli>>

(* --------------------- IdracSession.initialize ------------------------ *)
\* "frag" in model, for strings as sequences of characters
Contains(model, frag) ==
  \E i \in 1..Len(model) :
     /\ i + Len(frag) - 1 <= Len(model)
     /\ \A j \in 1..Len(frag) : model[i + j - 1] = frag[j]

\* Generation without the default of line 144
GenerationLeavesUnknown(model) ==
  IF Contains(model, <<"1", "2">>) \/ Contains(model, <<"1", "3">>) THEN 8
  ELSE IF Contains(model, <<"1", "4">>) \/ Contains(model, <<"1", "5">>)
          \/ Contains(model, <<"1", "6">>) THEN 9
  ELSE 0

\* Generation looking for the fragments of generation 9 first
GenerationNewerFirst(model) ==
  IF Contains(model, <<"1", "4">>) \/ Contains(model, <<"1", "5">>)
     \/ Contains(model, <<"1", "6">>) THEN 9
  ELSE IF Contains(model, <<"1", "2">>) \/ Contains(model, <<"1", "3">>) THEN 8
  ELSE 10

\* lines 139-144: the generation of a model string
Generation(model) ==
  IF Contains(model, <<"1", "2">>) \/ Contains(model, <<"1", "3">>) THEN 8
  ELSE IF Contains(model, <<"1", "4">>) \/ Contains(model, <<"1", "5">>)
          \/ Contains(model, <<"1", "6">>) THEN 9
  ELSE 10

\* where initialize() returns to when it is not the outermost call:
\* export_scp line 37, or oem_action_uri line 152 called by import_scp line 48
AfterInitialize == IF top = "export" THEN "exp_post" ELSE "imp_post"

\* Cached that never finds the generation cached
CachedNever(version) == FALSE

\* line 123: self.idrac_version is not None
Cached(version) == version # 0

\* ProbeError with one error for every refused probe
ProbeErrorGeneric(status) == "RuntimeError"

\* lines 128-130: the exception initialize raises for a probe response whose
\* status is not 200
ProbeError(status) == IF status = 401 THEN "PermissionError" ELSE "RuntimeError"

\* lines 123-127: the cached generation is returned, else the probe is sent
InitEntry ==
  /\ pc = "init_entry"
  /\ IF Cached(session.idrac_version)
       THEN IF top = "initialize"
              THEN /\ Finish("returned", ToString(session.idrac_version), "none")
                   /\ UNCHANGED req
              ELSE /\ pc' = AfterInitialize
                   /\ UNCHANGED <<outcome, req>>
       ELSE /\ StartRequest("probe", "GET", "Managers", "none")
            /\ UNCHANGED outcome
  /\ UNCHANGED <<session, top, retries, resp, poll, now, wire, written, exp,
                 targets, idx, results, calls>>
  /\ UNCHANGED <<expand, cli>>

\* lines 128-147: the probe's response.  resp.json() (136) raises a
\* ValueError on a body that is no JSON.
InitResp ==
  /\ pc = "init_resp"
  /\ IF resp.status # 200
       THEN /\ Finish("raised", "none", ProbeError(resp.status))
            /\ UNCHANGED <<session, req, resp>>
     ELSE IF ~resp.json
       THEN /\ Finish("raised", "none", "ValueError")
            /\ session' = [session EXCEPT !.probed200 = TRUE]
            /\ UNCHANGED <<req, resp>>
     ELSE /\ session' = [session EXCEPT !.probed200 = TRUE, !.idrac_version =
                            Generation(IF resp.hasModel THEN resp.Model ELSE <<>>)]
          /\ IF top = "initialize"
               THEN /\ Finish("returned",
                              ToString(Generation(IF resp.hasModel THEN resp.Model ELSE <<>>)),
                              "none")
                    /\ UNCHANGED <<req, resp>>
               ELSE /\ pc' = AfterInitialize
                    /\ req' = NoReq
                    /\ resp' = NoResp
                    /\ UNCHANGED outcome
  /\ UNCHANGED <<top, retries, poll, now, wire, written, exp, targets, idx, results, calls>>
  /\ UNCHANGED <<expand, cli>>

\* OemActionUri with the newer prefix from generation 9 on
OemActionUriNewerFromNine(version, action) ==
  (IF version >= 9 THEN "OemManager" ELSE "EID_674_Manager") \o "." \o action

\* oem_action_uri, lines 153-154: the URI of an OEM action for a generation
OemActionUri(version, action) ==
  (IF version >= 10 THEN "OemManager" ELSE "EID_674_Manager") \o "." \o action

(* ---------------------- IdracSession.poll_job ------------------------- *)
\* TimedOut with >= for >
TimedOutEarly(elapsed, job_timeout) == elapsed >= job_timeout

\* line 167
TimedOut(elapsed, job_timeout) == elapsed > job_timeout

\* line 180
IsTerminal(task_state) ==
  task_state \in {"Completed", "CompletedWithErrors", "Failed", "Exception"}

\* line 174: data.get("TaskState", "Unknown")
TaskStateOf(data) == IF data.TaskState = "absent" THEN "Unknown" ELSE data.TaskState

\* line 175: data.get("Messages", [{}])[0] raises IndexError on an empty array
FirstMessageFails(data) == data.hasMessages /\ data.Messages = <<>>

\* lines 156-163: poll_job is called with the caller's poll_interval and
\* job_timeout (arguments handed down unchanged from the configuration and
\* read here first); start = time.time()
StartPoll ==
  /\ \E p \in 1..MaxPollInterval, t \in 1..MaxJobTimeout :
        poll' = [poll_interval |-> p, job_timeout |-> t, log |-> <<>>,
                 state |-> "running"]
  /\ now' = 0
  /\ pc' = "poll_check"

\* where poll_job returns to
AfterPoll == IF top = "export" THEN "exp_final" ELSE "imp_final"

\* lines 166-172: one turn of the loop up to the status request
PollCheck ==
  /\ pc = "poll_check"
  /\ IF TimedOut(now, poll.job_timeout)
       THEN /\ poll' = [poll EXCEPT !.state = "timeout"]
            /\ Finish("raised", "none", "TimeoutError")
            /\ UNCHANGED req
       ELSE /\ poll' = [poll EXCEPT !.log = Append(@, "get")]
            /\ StartRequest("status", "GET", "Tasks", "none")
            /\ UNCHANGED outcome
  /\ UNCHANGED <<session, top, retries, resp, now, wire, written, exp, targets, idx, results, calls>>
  /\ UNCHANGED <<expand, cli>>

\* lines 173-183: the status response
PollResp ==
  /\ pc = "poll_resp"
  /\ IF ~resp.json
       THEN /\ poll' = [poll EXCEPT !.state = "raised"]
            /\ Finish("raised", "none", "ValueError")
            /\ UNCHANGED <<now, req, resp>>
     ELSE IF FirstMessageFails(resp)
       THEN /\ poll' = [poll EXCEPT !.state = "raised"]
            /\ Finish("raised", "none", "IndexError")
            /\ UNCHANGED <<now, req, resp>>
     ELSE IF IsTerminal(TaskStateOf(resp))
       THEN /\ poll' = [poll EXCEPT !.state = "returned"]
            /\ pc' = AfterPoll
            /\ req' = NoReq
            /\ UNCHANGED <<outcome, now, resp>>
     ELSE /\ poll' = [poll EXCEPT !.log = Append(@, "sleep")]
          /\ now' = now + poll.poll_interval
          /\ pc' = "poll_check"
          /\ req' = NoReq
          /\ resp' = NoResp
          /\ UNCHANGED outcome
  /\ UNCHANGED <<session, top, retries, wire, written, exp, targets, idx, results, calls>>
  /\ UNCHANGED <<expand, cli>>

(* ----------------------------- export_scp ----------------------------- *)
\* AttachInclude whatever the generation
AttachIncludeWheneverAsked(include, version) == include # "Default"

\* export_scp.py:48: IncludeInExport is attached
AttachInclude(include, version) == include # "Default" /\ version >= 9

\* line 37: session.initialize()
ExpEntry ==
  /\ pc = "exp_entry"
  /\ pc' = "init_entry"
  /\ UNCHANGED <<session, top, retries, req, resp, poll, now, wire, written, exp, outcome,
                 targets, idx, results, calls>>
  /\ UNCHANGED <<expand, cli>>

\* lines 39-57: the action URI, the payload (the include argument is read
\* here and nowhere else), the POST
ExpPost ==
  /\ pc = "exp_post"
  /\ \E include \in Includes :
       /\ exp' = [exp EXCEPT !.include = include]
       /\ StartRequest("submit", "POST",
                       OemActionUri(session.idrac_version, "ExportSystemConfiguration"),
                       IF AttachInclude(include, session.idrac_version)
                         THEN "IncludeInExport=" \o include ELSE "plain")
  /\ UNCHANGED <<session, top, retries, resp, poll, now, wire, written, outcome,
                 targets, idx, results, calls>>
  /\ UNCHANGED <<expand, cli>>

\* ExportRefused that does not look at the Location header
ExportRefusedByStatus(r) == r.status \notin {200, 202}

\* lines 59 and 66: the POST's response is no accepted job
ExportRefused(r) == r.status \notin {200, 202} \/ ~r.Location

\* lines 59-73: the POST's response; poll_job is called (include is not
\* read again)
ExpResp ==
  /\ pc = "exp_resp"
  /\ IF ExportRefused(resp)
       THEN /\ Finish("raised", IF resp.status \notin {200, 202} THEN "status" ELSE "location",
                      "RuntimeError")
            /\ UNCHANGED <<poll, now, req, resp, exp>>
       ELSE /\ StartPoll
            /\ req' = NoReq
            /\ resp' = NoResp
            /\ exp' = NoExp
            /\ UNCHANGED outcome
  /\ UNCHANGED <<session, top, retries, wire, written, targets, idx, results, calls>>
  /\ UNCHANGED <<expand, cli>>

\* The texts of the messages, by shape
StartsWithLt(text) == text = "<xml"
StartsWithBrace(text) == text = "{json"
HoldsElement(text) == text \in {"<xml", "info<xml"}
MessageText(msg) == IF msg.Message = "absent" THEN "" ELSE msg.Message

\* json.dumps of a string: quoted and escaped, so never the string itself
JsonDumps(str) == "\"" \o str \o "\""

\* the messages that carry Oem.Dell.ServerConfigurationProfile (line 120)
ProfileHits(messages) == { i \in 1..Len(messages) : messages[i].profile # "absent" }

\* FromProfile taking the last message that has the field
FromProfileLast(messages, format) ==
  LET hits == ProfileHits(messages)
  IN IF hits = {} THEN ""
     ELSE LET i == CHOOSE k \in hits : \A l \in hits : k >= l
          IN IF format = "JSON" THEN JsonDumps(messages[i].profile)
             ELSE messages[i].profile

\* lines 116-124: what is returned for the first message that has the vendor
\* field: the field as it is for XML, json.dumps of it for JSON
FromProfile(messages, format) ==
  LET hits == ProfileHits(messages)
  IN IF hits = {} THEN ""
     ELSE LET i == CHOOSE k \in hits : \A l \in hits : k <= l
          IN IF format = "JSON" THEN JsonDumps(messages[i].profile)
             ELSE messages[i].profile

\* lines 126-132: the first message whose text starts with the delimiter
FromMessageText(messages, format) ==
  LET hits == { i \in 1..Len(messages) :
                  \/ format = "XML" /\ StartsWithLt(MessageText(messages[i]))
                  \/ format = "JSON" /\ StartsWithBrace(MessageText(messages[i])) }
  IN IF hits = {} THEN ""
     ELSE MessageText(messages[CHOOSE k \in hits : \A l \in hits : k <= l])

\* lines 134-139: the SystemConfiguration element of the serialised task
\* data (as serialised: json.dumps has escaped it), for XML only
FromRawScan(messages, format) ==
  IF format = "XML" /\ \E i \in 1..Len(messages) : HoldsElement(MessageText(messages[i]))
    THEN "<xml(escaped)" ELSE ""

\* line 115: task_data.get("Messages", [])
MessagesOf(data) == IF data.hasMessages THEN data.Messages ELSE <<>>

\* _extract_scp_content, lines 107-141: the strategy whose return statement
\* is executed: 1 (line 122 or 124) as soon as a message has the vendor
\* field, 2 (130 or 132), 3 (139), or 0 for the return "" of line 141
Strategy(data, format) ==
  LET messages == MessagesOf(data)
  IN IF ProfileHits(messages) # {} THEN 1
     ELSE IF FromMessageText(messages, format) # "" THEN 2
     ELSE IF FromRawScan(messages, format) # "" THEN 3
     ELSE 0

\* _extract_scp_content, lines 107-141: the value returned
ExtractScpContent(data, format) ==
  LET messages == MessagesOf(data)
  IN CASE Strategy(data, format) = 1 -> FromProfile(messages, format)
       [] Strategy(data, format) = 2 -> FromMessageText(messages, format)
       [] Strategy(data, format) = 3 -> FromRawScan(messages, format)
       [] OTHER -> ""

\* line 78: "; ".join(m.get("Message", "") for m in messages)
JoinMessages(messages) ==
  LET J[n \in 0..Len(messages)] ==
        IF n = 0 THEN ""
        ELSE IF n = 1 THEN MessageText(messages[1])
        ELSE J[n - 1] \o "; " \o MessageText(messages[n])
  IN J[Len(messages)]

\* lines 75-79: the text of the error raised for a job that did not complete
JobFailedText(data) == TaskStateOf(data) \o ": " \o JoinMessages(MessagesOf(data))

\* lines 75-104: the terminal state; the payload is written to the file
\* (the export_format argument is read here)
ExpFinal ==
  /\ pc = "exp_final"
  /\ IF TaskStateOf(resp) # "Completed"
       THEN /\ Finish("raised", JobFailedText(resp), "RuntimeError")
            /\ UNCHANGED <<written, exp>>
       ELSE \E format \in Formats :
              /\ exp' = [exp EXCEPT !.export_format = format,
                                    !.strategy = Strategy(resp, format),
                                    !.scp_content = ExtractScpContent(resp, format)]
              /\ IF ExtractScpContent(resp, format) = ""
                   THEN /\ Finish("raised", "empty", "RuntimeError")
                        /\ UNCHANGED written
                   ELSE /\ written' = ExtractScpContent(resp, format)
                        /\ Finish("returned", "filepath", "none")
  /\ UNCHANGED <<session, top, retries, req, resp, poll, now, wire, targets, idx, results, calls>>
  /\ UNCHANGED <<expand, cli>>

(* ----------------------------- import_scp ----------------------------- *)
\* IdracSession (idrac_common.py:75-183) has no method check_supported and
\* no method detect_generation
HasMethod(kind, name) ==
  IF kind = "IdracSession"
    THEN name \in {"_request", "get", "post", "initialize", "oem_action_uri", "poll_job"}
    ELSE TRUE

\* _read_scp_file, import_scp.py:149-162: white space between tags collapsed,
\* newlines dropped, the ends stripped
ReadScpFile(content) == IF content = "ws" THEN "" ELSE content

\* lines 33-34: session.check_supported(); session.detect_generation().
\* On a session object that has the two methods they return and leave the
\* session as it is.
ImpEntry ==
  /\ pc = "imp_entry"
  /\ IF HasMethod(session.kind, "check_supported")
        /\ HasMethod(session.kind, "detect_generation")
       THEN /\ pc' = "imp_read"
            /\ UNCHANGED outcome
       ELSE Finish("raised", "none", "AttributeError")
  /\ UNCHANGED <<session, top, retries, req, resp, poll, now, wire, written, exp,
                 targets, idx, results, calls>>
  /\ UNCHANGED <<expand, cli>>

\* lines 43-48: the file is read; oem_action_uri detects the generation when
\* it is not known yet (idrac_common.py:151-152)
ImpRead ==
  /\ pc = "imp_read"
  /\ \E file \in FileStates :
       IF file = "missing"
         THEN Finish("raised", "none", "FileNotFoundError")
       ELSE IF ReadScpFile(file) = ""
         THEN Finish("returned", "False", "none")
       ELSE /\ pc' = IF session.idrac_version = 0 THEN "init_entry" ELSE "imp_post"
            /\ UNCHANGED outcome
  /\ UNCHANGED <<session, top, retries, req, resp, poll, now, wire, written, exp,
                 targets, idx, results, calls>>
  /\ UNCHANGED <<expand, cli>>

\* lines 48-60: the action URI, the payload, the POST
ImpPost ==
  /\ pc = "imp_post"
  /\ StartRequest("submit", "POST",
                  OemActionUri(session.idrac_version, "ImportSystemConfiguration"),
                  "ImportBuffer")
  /\ UNCHANGED <<session, top, retries, resp, poll, now, wire, written, exp, outcome,
                 targets, idx, results, calls>>
  /\ UNCHANGED <<expand, cli>>

\* OnSubmitFault raising instead of returning False
OnSubmitFaultRaises(r) == "raise"

\* lines 62-71: what import_scp does with a POST response that is no
\* accepted job: "return False" or "raise"
OnSubmitFault(r) == "return False"

\* lines 62-77: the POST's response; poll_job is called
ImpResp ==
  /\ pc = "imp_resp"
  /\ IF resp.status \notin {200, 202} \/ ~resp.Location
       THEN /\ IF OnSubmitFault(resp) = "return False"
                 THEN Finish("returned", "False", "none")
                 ELSE Finish("raised", "none", "RuntimeError")
            /\ UNCHANGED <<poll, now, req, resp>>
       ELSE /\ StartPoll
            /\ req' = NoReq
            /\ resp' = NoResp
            /\ UNCHANGED outcome
  /\ UNCHANGED <<session, top, retries, wire, written, exp, targets, idx, results, calls>>
  /\ UNCHANGED <<expand, cli>>

\* lines 83-90: the value import_scp returns for a terminal task state
ImportResult(task_state) == IF task_state = "Completed" THEN "True" ELSE "False"

\* lines 79-90
ImpFinal ==
  /\ pc = "imp_final"
  /\ Finish("returned", ImportResult(TaskStateOf(resp)), "none")
  /\ UNCHANGED <<session, top, retries, req, resp, poll, now, wire, written, exp,
                 targets, idx, results, calls>>
  /\ UNCHANGED <<expand, cli>>

(* ------------------------ import_scp_to_targets ------------------------ *)
\* DictSet on a list of pairs: every assignment appends
DictSetAppends(d, k, v) == Append(d, <<k, v>>)

\* results[ip] = ok on a dict, which keeps insertion order: a key that is
\* already there keeps its place and gets the new value
DictSet(d, k, v) ==
  IF \E i \in 1..Len(d) : d[i][1] = k
    THEN [i \in 1..Len(d) |-> IF d[i][1] = k THEN <<k, v>> ELSE d[i]]
    ELSE Append(d, <<k, v>>)

\* Recorded with the except branch recording success
RecordedDespiteRaise(call) == call.how = "raised" \/ call.value = "True"

\* lines 141-144: what is recorded for a target whose import_scp call ended
\* with `call`: ok when it returned (141), False when it raised an
\* Exception (142-144)
Recorded(call) == call.how = "returned" /\ call.value = "True"

\* line 118: the loop goes on while targets are left
MoreTargets(i, ts) == i < Len(ts)

\* lines 118-140: the next target; a new IdracSession; import_scp is called
TgtNext ==
  /\ pc = "tgt_loop"
  /\ MoreTargets(idx, targets)
  /\ session' = NewIdracSession("IdracSession", targets[idx + 1], retries)
  /\ pc' = "imp_entry"
  /\ UNCHANGED <<top, retries, req, resp, poll, now, wire, written, exp, outcome,
                 targets, idx, results, calls>>
  /\ UNCHANGED <<expand, cli>>

\* lines 141-144: the outcome is recorded, whether import_scp returned or
\* raised an Exception; the frames of the call are gone
TgtRecord ==
  /\ pc = "ending"
  /\ top = "targets"
  /\ results' = DictSet(results, targets[idx + 1], Recorded(outcome))
  /\ calls' = Append(calls, [ip |-> targets[idx + 1], how |-> outcome.how,
                              value |-> outcome.value, exc |-> outcome.exc])
  /\ idx' = idx + 1
  /\ pc' = "tgt_loop"
  /\ outcome' = NoOutcome
  /\ NoFrames
  /\ UNCHANGED <<session, top, retries, targets>>
  /\ UNCHANGED <<expand, cli>>

\* line 146: return results
TgtReturn ==
  /\ pc = "tgt_loop"
  /\ ~MoreTargets(idx, targets)
  /\ outcome' = [op |-> "targets", how |-> "returned", value |-> "results", exc |-> "none"]
  /\ pc' = "tgt_done"
  /\ UNCHANGED <<session, top, retries, req, resp, poll, now, wire, written, exp,
                 targets, idx, results, calls>>
  /\ UNCHANGED <<expand, cli>>

(* --------------------------- expand_targets --------------------------- *)
\* the state the request-level model is in while nothing of it runs
RequestLevelIdle ==
  UNCHANGED <<session, top, pc, retries, req, resp, poll, now, wire, written, exp,
              outcome, targets, idx, results, calls>>

\* idrac_common.py:67, current += 1: IPv4Address.__add__ builds a new
\* IPv4Address, which raises AddressValueError above the largest address
CanIncrement(current) == current + 1 <= AllOnes

\* lines 64-67: the addresses the while loop appends, in order
RangeWalk(start, end) == [k \in 1..(end - start + 1) |-> start + k - 1]

\* lines 64-67: the while loop raises: the increment after an append fails
RangeWalkRaises(start, end) == \E current \in start..end : ~CanIncrement(current)

\* expand_targets(targets) is called    idrac_common.py:48-55
ExpandCall ==
  /\ expand.state = "idle"
  /\ cli.pos = "off"
  /\ pc = "idle"
  /\ \E ts \in SeqsUpTo(TargetEntries, MaxEntries) :
       expand' = [targets |-> ts, i |-> 0, expanded |-> <<>>, state |-> "running",
                  exc |-> "none"]
  /\ RequestLevelIdle
  /\ UNCHANGED cli

\* lines 56-71: one turn of the for loop
ExpandEntry ==
  /\ expand.state = "running"
  /\ expand.i < Len(expand.targets)
  /\ LET entry == expand.targets[expand.i + 1]
     IN expand' =
          CASE entry.kind = "malformed" ->
                 [expand EXCEPT !.state = "raised", !.exc = "AddressValueError"]
            [] entry.kind = "single" ->
                 [expand EXCEPT !.i = @ + 1, !.expanded = Append(@, entry.a)]
            [] entry.kind = "range" /\ entry.a > entry.b ->
                 [expand EXCEPT !.state = "raised", !.exc = "ValueError"]
            [] entry.kind = "range" /\ entry.a <= entry.b ->
                 IF RangeWalkRaises(entry.a, entry.b)
                   THEN [expand EXCEPT !.expanded = @ \o RangeWalk(entry.a, entry.b),
                                       !.state = "raised", !.exc = "AddressValueError"]
                   ELSE [expand EXCEPT !.i = @ + 1,
                                       !.expanded = @ \o RangeWalk(entry.a, entry.b)]
  /\ RequestLevelIdle
  /\ UNCHANGED cli

\* line 72: return expanded
ExpandReturn ==
  /\ expand.state = "running"
  /\ expand.i = Len(expand.targets)
  /\ expand' = [expand EXCEPT !.state = "returned"]
  /\ RequestLevelIdle
  /\ UNCHANGED cli

\* the caller has the list, or the exception
ExpandEnd ==
  /\ expand.state \in {"returned", "raised"}
  /\ expand' = NoExpand
  /\ RequestLevelIdle
  /\ UNCHANGED cli

ExpandNext ==
  \/ ExpandCall
  \/ ExpandEntry
  \/ ExpandReturn
  \/ ExpandEnd

\* expand_targets on its own
ExpandSpec == Init /\ [][ExpandNext]_vars

(* ------------------------------ main.py ------------------------------- *)
Commands == {"export", "import", "apply", "validate", "pipeline"}
\* names a pipeline step can have; "deploy" is none of the valid ones
StepNames == {"validate", "export", "import", "apply", "deploy"}
\* line 278
ValidSteps == {"validate", "export", "import", "apply"}

GroupName(k) == "g" \o ToString(k)
\* a group nothing of which has been read yet
UnreadGroup(k) == [name |-> GroupName(k), source_ip |-> "unread", targets |-> "unread",
                   template |-> "unread"]
\* what a group's fields can hold.  source_ip: "" or an address; targets:
\* "none" an empty list, "bad" a list expand_targets raises on, "ok" a list it
\* expands; template: "" no path, or a path whose file is "missing" or "present"
SourceIps == {"", "ip"}
TargetLists == {"none", "bad", "ok"}
Templates == {"", "missing", "present"}
\* reading a field: what it holds, drawn when it is read first
Read(value, domain) == IF value = "unread" THEN domain ELSE {value}

\* the file argument of import: none, a path with no file ("missing"), or the
\* path of a file ("arg")
FileArgs == {"None", "missing", "arg"}
\* the path export_scp writes: the group's template path if it has one,
\* otherwise a new file under templates/ (export_scp, output_filepath)
ExportPath(name, template) ==
  IF template = "" THEN "auto:" \o name ELSE "tpl:" \o name

\* One call made by main.py: op "step" (a pipeline step begins; group is its
\* name), "export" (export_scp), "import" (import_scp_to_targets) or
\* "validate" (the probes of cmd_validate); net: a request went to a
\* controller; ok: export_scp returned / every recorded target succeeded /
\* every controller answered
Event(op, group, file, net, ok) ==
  [op |-> op, group |-> group, file |-> file, net |-> net, ok |-> ok]

\* What import_scp_to_targets can record for a target: import_scp is called
\* with a new IdracSession (import_scp.py:124-140), and raises before any
\* request when the session lacks check_supported or detect_generation
TargetResults ==
  IF HasMethod("IdracSession", "check_supported")
     /\ HasMethod("IdracSession", "detect_generation")
    THEN BOOLEAN ELSE {FALSE}
\* ... and whether a request goes to a target
TargetRequests ==
  IF HasMethod("IdracSession", "check_supported")
     /\ HasMethod("IdracSession", "detect_generation")
    THEN BOOLEAN ELSE {FALSE}

\* sys.exit(status), or an exception that nothing catches
Exit(c, status, why) == [c EXCEPT !.pos = "exited", !.exit = status, !.why = why]
\* a cmd_ function is called
Enter(c, act, ctx, garg, file) ==
  [c EXCEPT !.pos = "enter", !.act = act, !.ctx = ctx, !.garg = garg,
            !.scp_filepath = file]
\* cmd_pipeline goes on with the next step
NextStep(c) == [c EXCEPT !.pos = "pipe_step", !.si = @ + 1, !.act = "none", !.ctx = "none"]

\* python main.py <command> [-g group] [file] with a configuration
CliStart ==
  /\ cli.pos = "off"
  /\ expand.state = "idle"
  /\ pc = "idle"
  /\ \E command \in Commands, g \in {"None", GroupName(1), "nosuch"},
        n \in 0..MaxGroups :
       \E file \in (IF command = "import" THEN FileArgs ELSE {"None"}),
          steps \in (IF command = "pipeline" THEN SeqsUpTo(StepNames, MaxSteps) ELSE {<<>>}) :
         cli' = [NoCli EXCEPT !.pos = "main", !.command = command, !.group_arg = g,
                              !.file_arg = file, !.steps = steps,
                              !.groups = [k \in 1..n |-> UnreadGroup(k)]]
  /\ RequestLevelIdle
  /\ UNCHANGED expand

\* main, lines 347-373
MainDispatch ==
  /\ cli.pos = "main"
  /\ cli' =
       CASE cli.command = "export" -> Enter(cli, "export", "main", cli.group_arg, "None")
         [] cli.command = "import" ->
              IF cli.file_arg = "missing" THEN Exit(cli, "1", "file")
              ELSE Enter(cli, "import", "main", cli.group_arg, cli.file_arg)
         [] cli.command = "apply" -> Enter(cli, "export", "apply", cli.group_arg, "None")
         [] cli.command = "validate" -> Enter(cli, "validate", "main", cli.group_arg, "None")
         [] cli.command = "pipeline" -> [cli EXCEPT !.pos = "pipe_check"]
  /\ RequestLevelIdle
  /\ UNCHANGED expand

\* cmd_pipeline, lines 270-288: nothing to do, or every step name is checked
PipelineCheck ==
  /\ cli.pos = "pipe_check"
  /\ cli' =
       IF cli.steps = <<>> THEN Exit(cli, "0", "none")
       ELSE IF \E k \in 1..Len(cli.steps) : cli.steps[k] \notin ValidSteps
         THEN Exit(cli, "1", "step")
       ELSE [cli EXCEPT !.pos = "pipe_step"]
  /\ RequestLevelIdle
  /\ UNCHANGED expand

\* cmd_pipeline, lines 291-318: the next step begins, or all are done
PipelineStep ==
  /\ cli.pos = "pipe_step"
  /\ cli' =
       IF cli.si = Len(cli.steps) THEN Exit(cli, "0", "none")
       ELSE LET step == cli.steps[cli.si + 1]
                c == [cli EXCEPT !.log = Append(@, Event("step", step, "none", FALSE, TRUE))]
            IN CASE step = "validate" -> Enter(c, "validate", "step", cli.group_arg, "None")
                 [] step = "export" -> Enter(c, "export", "step", cli.group_arg, "None")
                 [] step = "import" -> Enter(c, "import", "step", cli.group_arg, "None")
                 [] step = "apply" -> Enter(c, "export", "apply", cli.group_arg, "None")
                 [] OTHER -> NextStep(c)
  /\ RequestLevelIdle
  /\ UNCHANGED expand

\* select_groups, lines 96-104: the indices of the groups selected
Selected(groups, group_name) ==
  IF group_name = "None" THEN [k \in 1..Len(groups) |-> k]
  ELSE LET k == CHOOSE j \in 1..Len(groups) : groups[j].name = group_name IN <<k>>
KnownGroup(groups, group_name) ==
  group_name = "None" \/ \E j \in 1..Len(groups) : groups[j].name = group_name

\* the head of cmd_export (141-146), cmd_import (183-186) and cmd_validate
\* (226-228): get_credentials, then select_groups
CmdEnter ==
  /\ cli.pos = "enter"
  /\ \E creds \in Read(cli.creds, {"set", "missing"}) :
       cli' =
         IF creds = "missing" THEN Exit([cli EXCEPT !.creds = creds], "1", "credentials")
         ELSE IF ~KnownGroup(cli.groups, cli.garg)
           THEN Exit([cli EXCEPT !.creds = creds], "1", "group")
         ELSE [cli EXCEPT !.creds = creds,
                          !.sel = Selected(cli.groups, cli.garg),
                          !.gi = 0,
                          !.all_ok = IF cli.act = "import" THEN TRUE ELSE @,
                          !.exported = IF cli.act = "export" THEN <<>> ELSE @,
                          !.pos = CASE cli.act = "export" -> "exp_loop"
                                    [] cli.act = "import" -> "imp_loop"
                                    [] cli.act = "validate" -> "validate"]
  /\ RequestLevelIdle
  /\ UNCHANGED expand

\* line 364 and line 312: apply imports the group the file was exported for
ApplyImportGroupArg(name, group_arg) == group_arg
ApplyImportGroup(name, group_arg) == name

\* lines 218-219
AllOk(all_ok, ok) == all_ok /\ ok

\* line 357: sys.exit(0 if ok else 1)
ExitStatusZero(ok) == "0"
ExitStatus(ok) == IF ok THEN "0" ELSE "1"

\* lines 305 and 315: a pipeline step whose import failed ends the run
StepFailsNever(ok) == FALSE
StepFails(ok) == ~ok

\* cmd_export, lines 147-169: one turn of the loop over the selected groups
ExportGroup ==
  /\ cli.pos = "exp_loop"
  /\ cli.gi < Len(cli.sel)
  /\ LET k == cli.sel[cli.gi + 1]
         g == cli.groups[k]
     IN \E source_ip \in Read(g.source_ip, SourceIps) :
          IF source_ip = ""
            THEN cli' = Exit([cli EXCEPT !.groups[k].source_ip = source_ip], "1", "source_ip")
            ELSE \E template \in Read(g.template, Templates), returned \in BOOLEAN,
                    net \in BOOLEAN :
                   /\ returned => net
                   /\ cli' =
                        IF returned
                          THEN [cli EXCEPT
                                  !.groups[k].source_ip = source_ip,
                                  !.groups[k].template =
                                     IF template = "" THEN "" ELSE "present",
                                  !.exported =
                                     Append(@, [name |-> g.name,
                                                file |-> ExportPath(g.name, template)]),
                                  !.log = Append(@, Event("export", g.name,
                                                          ExportPath(g.name, template),
                                                          net, TRUE)),
                                  !.gi = @ + 1]
                          ELSE Exit([cli EXCEPT
                                       !.groups[k].source_ip = source_ip,
                                       !.groups[k].template = template,
                                       !.log = Append(@, Event("export", g.name, "none",
                                                               net, FALSE))],
                                    "raised", "export")
  /\ RequestLevelIdle
  /\ UNCHANGED expand

\* cmd_export returns (line 171) to main (348, 360) or cmd_pipeline (300, 309)
ExportReturn ==
  /\ cli.pos = "exp_loop"
  /\ cli.gi = Len(cli.sel)
  /\ cli' =
       CASE cli.ctx = "main" -> Exit(cli, "0", "none")
         [] cli.ctx = "step" -> NextStep(cli)
         [] cli.ctx = "apply" -> [cli EXCEPT !.pos = "apply_loop", !.ai = 0,
                                             !.apply_ok = TRUE]
  /\ RequestLevelIdle
  /\ UNCHANGED expand

\* the loop of apply over the exported files: main 362-367, cmd_pipeline 310-316
ApplyNext ==
  /\ cli.pos = "apply_loop"
  /\ cli' =
       IF cli.ai < Len(cli.exported)
         THEN Enter(cli, "import", "apply",
                    ApplyImportGroup(cli.exported[cli.ai + 1].name, cli.group_arg),
                    cli.exported[cli.ai + 1].file)
       ELSE IF cli.command = "apply"
         THEN Exit(cli, ExitStatus(cli.apply_ok), IF cli.apply_ok THEN "none" ELSE "import")
       ELSE IF StepFails(cli.apply_ok) THEN Exit(cli, "1", "import")
       ELSE NextStep(cli)
  /\ RequestLevelIdle
  /\ UNCHANGED expand

\* cmd_import, lines 187-219: one turn of the loop over the selected groups
ImportGroup ==
  /\ cli.pos = "imp_loop"
  /\ cli.gi < Len(cli.sel)
  /\ LET k == cli.sel[cli.gi + 1]
         g == cli.groups[k]
     IN \E raw_targets \in Read(g.targets, TargetLists) :
          LET c == [cli EXCEPT !.groups[k].targets = raw_targets]
          IN CASE raw_targets = "none" -> cli' = Exit(c, "1", "targets")
               [] raw_targets = "bad" -> cli' = Exit(c, "raised", "range")
               [] raw_targets = "ok" ->
                    \E template \in (IF cli.scp_filepath # "None" THEN {g.template}
                                     ELSE Read(g.template, Templates)) :
                      LET d == [c EXCEPT !.groups[k].template = template]
                          file_to_import ==
                            IF cli.scp_filepath # "None" THEN cli.scp_filepath
                            ELSE IF template = "" THEN ""
                            ELSE ExportPath(g.name, template)
                      IN IF file_to_import = "" THEN cli' = Exit(d, "1", "template")
                         ELSE IF cli.scp_filepath = "None" /\ template = "missing"
                           THEN cli' = Exit(d, "1", "template_file")
                         ELSE \E ok \in TargetResults, net \in TargetRequests :
                                cli' = [d EXCEPT
                                          !.log = Append(@, Event("import", g.name,
                                                                  file_to_import, net, ok)),
                                          !.all_ok = AllOk(@, ok),
                                          !.gi = @ + 1]
  /\ RequestLevelIdle
  /\ UNCHANGED expand

\* cmd_import returns all_ok (line 221) to main (356-357, 364-366) or
\* cmd_pipeline (304-306, 312-314)
ImportReturn ==
  /\ cli.pos = "imp_loop"
  /\ cli.gi = Len(cli.sel)
  /\ LET c == [cli EXCEPT !.ret = IF cli.all_ok THEN "True" ELSE "False"]
     IN cli' =
          CASE cli.ctx = "main" ->
                 Exit(c, ExitStatus(cli.all_ok), IF cli.all_ok THEN "none" ELSE "import")
            [] cli.ctx = "step" ->
                 IF StepFails(cli.all_ok) THEN Exit(c, "1", "import") ELSE NextStep(c)
            [] cli.ctx = "apply" ->
                 [c EXCEPT !.pos = "apply_loop", !.ai = @ + 1,
                           !.apply_ok = AllOk(@, cli.all_ok)]
  /\ RequestLevelIdle
  /\ UNCHANGED expand

\* cmd_validate, lines 230-258
Validate ==
  /\ cli.pos = "validate"
  /\ LET n == Len(cli.groups)
         chosen == { cli.sel[j] : j \in 1..Len(cli.sel) }
     IN \E src \in [1..n -> SourceIps \cup {"unread"}],
           tl \in [1..n -> TargetLists \cup {"unread"}] :
          /\ \A k \in 1..n :
               /\ src[k] \in (IF k \in chosen THEN Read(cli.groups[k].source_ip, SourceIps)
                              ELSE {cli.groups[k].source_ip})
               /\ tl[k] \in (IF k \in chosen THEN Read(cli.groups[k].targets, TargetLists)
                             ELSE {cli.groups[k].targets})
          /\ LET c == [cli EXCEPT
                         !.groups = [k \in 1..n |->
                                       [cli.groups[k] EXCEPT !.source_ip = src[k],
                                                             !.targets = tl[k]]]]
             IN IF \E k \in chosen : tl[k] = "bad" THEN cli' = Exit(c, "raised", "range")
                ELSE IF \A k \in chosen : src[k] = "" /\ tl[k] = "none"
                  THEN cli' = Exit(c, "1", "no_idracs")
                ELSE \E failures \in BOOLEAN, net \in BOOLEAN :
                       /\ ~failures => net
                       /\ LET d == [c EXCEPT
                                      !.log = Append(@, Event("validate", "all", "none",
                                                              net, ~failures))]
                          IN cli' =
                               IF failures THEN Exit(d, "1", "unreachable")
                               ELSE IF cli.ctx = "main" THEN Exit(d, "0", "none")
                               ELSE NextStep(d)
  /\ RequestLevelIdle
  /\ UNCHANGED expand

\* the process has ended
CliEnd ==
  /\ cli.pos = "exited"
  /\ cli' = NoCli
  /\ RequestLevelIdle
  /\ UNCHANGED expand

CmdNext ==
  \/ CliStart
  \/ MainDispatch
  \/ PipelineCheck
  \/ PipelineStep
  \/ CmdEnter
  \/ ExportGroup
  \/ ExportReturn
  \/ ApplyNext
  \/ ImportGroup
  \/ ImportReturn
  \/ Validate
  \/ CliEnd

CmdSpec == Init /\ [][CmdNext]_vars

(* --------------------------- specification ---------------------------- *)
Next ==
  \/ NewSession
  \/ CallInitialize
  \/ CallExport
  \/ CallImport
  \/ CallImportTargets
  \/ EndCall
  \/ EndTargets
  \/ ReqAttempt
  \/ ReqExhausted
  \/ InitEntry
  \/ InitResp
  \/ PollCheck
  \/ PollResp
  \/ ExpEntry
  \/ ExpPost
  \/ ExpResp
  \/ ExpFinal
  \/ ImpEntry
  \/ ImpRead
  \/ ImpPost
  \/ ImpResp
  \/ ImpFinal
  \/ TgtNext
  \/ TgtRecord
  \/ TgtReturn

Spec == Init /\ [][Next]_vars

\* The thread of control runs whenever it can take a step
FairSpec == Spec /\ WF_vars(Next)

TypeOK ==
  /\ top \in {"idle", "initialize", "export", "import", "targets"}
  /\ session.idrac_version \in {0, 8, 9, 10}
  /\ idx \in 0..Len(targets)
  /\ now \in Nat

(* ------------------------------ claims -------------------------------- *)
\* the value the results dict holds for key k
ValueOf(d, k) == d[CHOOSE n \in 1..Len(d) : d[n][1] = k][2]
HasKey(d, k) == \E n \in 1..Len(d) : d[n][1] = k

\* C1: in import_scp_to_targets every target is processed, in order, whatever
\* the calls before it did; a target whose import_scp call raised is recorded
\* False; every processed target is recorded with the result of its own
\* call; and the function returns, with all targets processed, instead of
\* raising.
C1_FailuresAreIsolated ==
  top = "targets" =>
    /\ Len(calls) = idx
    /\ \A i \in 1..idx :
         /\ calls[i].ip = targets[i]
         /\ HasKey(results, targets[i])
         /\ ValueOf(results, targets[i])
              = (calls[i].how = "returned" /\ calls[i].value = "True")
         /\ calls[i].how = "raised" => ~ValueOf(results, targets[i])
    /\ pc = "tgt_done" => idx = Len(targets) /\ outcome.how = "returned"
    /\ pc # "idle"

\* C1 witness: three targets, the second one's call raised, all three processed
C1_Witness ==
  /\ top = "targets"
  /\ pc = "tgt_done"
  /\ Len(targets) = 3
  /\ idx = 3
  /\ calls[2].how = "raised"
  /\ targets[1] # targets[2]

\* C2 (as claimed): the map import_scp_to_targets returns holds exactly one
\* boolean per supplied target, in the order supplied, duplicates included.
C2_OnePerTarget ==
  (top = "targets" /\ pc = "tgt_done") =>
    /\ Len(results) = Len(targets)
    /\ \A i \in 1..Len(targets) : results[i][1] = targets[i]

\* the addresses of a list in the order of their first occurrence
FirstOccurrences(ts) ==
  LET F[n \in 0..Len(ts)] ==
        IF n = 0 THEN <<>>
        ELSE IF \E j \in 1..(n - 1) : ts[j] = ts[n] THEN F[n - 1]
        ELSE Append(F[n - 1], ts[n])
  IN F[Len(ts)]

\* the last import_scp call made for address k
LastCall(k) ==
  calls[CHOOSE i \in 1..Len(calls) :
          calls[i].ip = k /\ \A j \in (i + 1)..Len(calls) : calls[j].ip # k]

\* the map import_scp_to_targets returns is complete: one boolean per
\* distinct address, in the order of first occurrence, that of the last call
ResultsComplete ==
  (top = "targets" /\ pc = "tgt_done") =>
    /\ idx = Len(targets)
    /\ outcome.how = "returned"
    /\ [n \in 1..Len(results) |-> results[n][1]] = FirstOccurrences(targets)
    /\ \A n \in 1..Len(results) :
         results[n][2] = (LastCall(results[n][1]).how = "returned"
                          /\ LastCall(results[n][1]).value = "True")

\* C2 (amended): import_scp_to_targets always completes and returns a map
\* that holds exactly one boolean per distinct supplied address, in the order
\* in which the addresses first appear; for an address supplied more than
\* once it is the outcome of the address's last import call.
C2_OnePerAddress ==
  /\ []ResultsComplete
  /\ [](top = "targets" => <>(pc = "tgt_done"))

\* C2 witness: a list of three targets with one address twice has been
\* processed and the map holds two entries
C2_Witness ==
  /\ top = "targets"
  /\ pc = "tgt_done"
  /\ Len(targets) = 3
  /\ targets[1] = targets[3]
  /\ targets[1] # targets[2]
  /\ Len(results) = 2

\* no transport failure, no timeout, no refusing response was seen by the call
Cooperative ==
  /\ req.last_exc = "None"
  /\ req.state # "raised"
  /\ poll.state \notin {"timeout", "raised"}
  /\ resp.status \in {0, 200, 202}

\* C3 (as claimed): import_scp on an IdracSession whose controller cooperates
\* returns, True exactly when the job's terminal state is Completed.
C3_ImportReturnsJobResult ==
  (pc = "ending" /\ outcome.op = "import" /\ session.kind = "IdracSession" /\ Cooperative) =>
    /\ outcome.how = "returned"
    /\ (outcome.value = "True") <=> (poll.state = "returned" /\ TaskStateOf(resp) = "Completed")

\* the import POST was answered by something that is no accepted job
SubmitFault ==
  /\ req.purpose = "submit"
  /\ req.state = "returned"
  /\ (resp.status \notin {200, 202} \/ ~resp.Location)

\* the job ran and ended in a terminal state other than Completed
JobFailed ==
  /\ poll.state = "returned"
  /\ TaskStateOf(resp) \in {"CompletedWithErrors", "Failed", "Exception"}

Alternates(log) ==
  /\ Len(log) % 2 = 1
  /\ \A i \in 1..Len(log) : log[i] = (IF i % 2 = 1 THEN "get" ELSE "sleep")

\* C5 (as claimed): poll_job ends, other than by the timeout or a failed
\* request, only on a terminal state, having issued k+1 status requests with
\* one sleep between consecutive ones for the k non-terminal states reported;
\* the timeout is never raised before it has elapsed.
C5_PollsUntilTerminal ==
  /\ (poll.state \in {"returned", "raised"} /\ resp.json) =>
        /\ IsTerminal(TaskStateOf(resp))
        /\ Alternates(poll.log)
  /\ poll.state = "timeout" => now > poll.job_timeout

\* C6: poll_job raises TimeoutError only when the elapsed time exceeds
\* job_timeout, and then without another status request; no status request
\* is issued in a turn that starts after the timeout; what poll_job sends is
\* GET on the task, never a request that cancels or changes the job.
C6_TimeoutIsClientSide ==
  /\ poll.state = "timeout" =>
        /\ now > poll.job_timeout
        /\ outcome.exc = "TimeoutError"
        /\ req.state = "idle"
        /\ poll.log # <<>> /\ poll.log[Len(poll.log)] = "sleep"
  /\ outcome.exc = "TimeoutError" => poll.state = "timeout"
  /\ (pc = "request" /\ req.purpose = "status" /\ req.made = 0) => now <= poll.job_timeout
  /\ (pc = "request" /\ poll.state = "running") => req.method = "GET" /\ req.uri = "Tasks"
  /\ \A w \in wire : w[2] = "Tasks" => w[1] = "GET"

\* C6 witness: a poll_job that polled and slept has raised the timeout
C6_Witness ==
  /\ poll.state = "timeout"
  /\ Len(poll.log) >= 2
  /\ <<"GET", "Tasks">> \in wire

\* C7 (as claimed): a status response with a terminal TaskState makes
\* poll_job return it, whatever its Messages array holds.
C7_TerminalReturns ==
  (poll.state \in {"returned", "raised"} /\ resp.json /\ IsTerminal(TaskStateOf(resp))) =>
    poll.state = "returned"

\* C8: when _request returns a response after f failed attempts, f is below
\* retries, f+1 attempts were made, and the sleeps were 2, 4, ..., 2^f: 2^i
\* before attempt i+1.
C8_BackoffSchedule ==
  req.state = "returned" =>
    LET f == req.made - 1
    IN /\ f < session.retries
       /\ req.attempt = f + 1
       /\ Len(req.sleeps) = f
       /\ \A i \in 1..f : req.sleeps[i] = 2 ^ i

\* C8 witness: retries = 3, two failures, then the response: slept 2 then 4
C8_Witness ==
  /\ req.state = "returned"
  /\ session.retries = 3
  /\ req.made = 3
  /\ req.sleeps = <<2, 4>>

\* C9 (as claimed): when every attempt fails with a connection error the
\* request is attempted at least once, exactly retries times for retries >= 1,
\* with no sleep after the last attempt, and the error raised carries the
\* last attempt's cause.
C9_ExhaustedAfterRetries ==
  (req.state = "raised" /\ outcome.exc = "ConnectionError") =>
    /\ req.made >= 1
    /\ session.retries >= 1 => req.made = session.retries
    /\ Len(req.sleeps) = req.made - 1
    /\ outcome.value = "ConnectionError"

\* C10: an attempt answered by an HTTP response, whatever its status, is the
\* last one: _request has returned that response, made no attempt and slept
\* no backoff after it.
C10_ResponsesAreReturned ==
  req.answered >= 1 =>
    /\ req.answered = 1
    /\ req.state = "returned"
    /\ resp \in ResponsesFor(req.purpose)
    /\ req.made = req.attempt
    /\ Len(req.sleeps) = req.made - 1

\* C10 witness: the probe answered 503 on the first attempt is with initialize
C10_Witness ==
  /\ req.answered = 1
  /\ req.made = 1
  /\ resp.status = 503
  /\ pc = "init_resp"

\* C11: initialize on a session whose generation is known issues no request
\* and returns the cached generation: a probe is only in flight while the
\* generation is unset, and a call of initialize that found it set has put
\* nothing on the wire.
C11_SecondInitializeIsCached ==
  /\ []((pc = "request" /\ req.purpose = "probe") => session.idrac_version = 0)
  /\ []((top = "initialize" /\ pc = "ending" /\ req.state = "idle") =>
          /\ wire = {}
          /\ outcome.how = "returned"
          /\ session.idrac_version # 0
          /\ outcome.value = ToString(session.idrac_version))
  /\ [][(pc = "init_entry" /\ session.idrac_version # 0) =>
          /\ wire' = wire
          /\ req' = req
          /\ session' = session
          /\ pc' # "request"]_vars

\* C11 witness: initialize returned generation 9 from the cache, nothing sent
C11_Witness ==
  /\ top = "initialize"
  /\ pc = "ending"
  /\ req.state = "idle"
  /\ wire = {}
  /\ outcome.value = "9"

\* the steps in which a caller makes or drops a session object
Constructs == pc \in {"idle", "tgt_loop", "tgt_done"}

ProbeRefused ==
  /\ req.purpose = "probe"
  /\ req.state = "returned"
  /\ resp.status # 200

\* C13: a probe answered 401 makes initialize raise PermissionError, any
\* other status but 200 RuntimeError; the probe is not issued again, the
\* generation stays unset, and the operation in progress ends there, having
\* sent nothing but the probe.
C13_ProbeErrors ==
  ProbeRefused =>
    /\ pc \in {"init_resp", "ending"}
    /\ session.idrac_version = 0
    /\ req.answered = 1
    /\ wire = {<<"GET", "Managers">>}
    /\ poll.state = "idle"
    /\ written = "none"
    /\ pc = "ending" =>
         /\ outcome.how = "raised"
         /\ resp.status = 401 => outcome.exc = "PermissionError"
         /\ resp.status # 401 => outcome.exc = "RuntimeError"

\* C13 witness: an export whose probe was answered 401 has ended
C13_Witness ==
  /\ top = "export"
  /\ pc = "ending"
  /\ ProbeRefused
  /\ resp.status = 401

\* C14: a probe answered 200 yields generation 8 exactly when Model holds
\* "12" or "13", else 9 exactly when it holds "14", "15" or "16", else 10; a
\* missing Model yields 10; initialize returns the generation.
C14_Classification ==
  (top = "initialize" /\ pc = "ending" /\ req.state = "returned"
     /\ resp.status = 200 /\ resp.json) =>
    LET model == IF resp.hasModel THEN resp.Model ELSE <<>>
        older == Contains(model, <<"1", "2">>) \/ Contains(model, <<"1", "3">>)
        middle == Contains(model, <<"1", "4">>) \/ Contains(model, <<"1", "5">>)
                    \/ Contains(model, <<"1", "6">>)
    IN /\ session.idrac_version \in {8, 9, 10}
       /\ session.idrac_version = 8 <=> older
       /\ session.idrac_version = 9 <=> (~older /\ middle)
       /\ session.idrac_version = 10 <=> (~older /\ ~middle)
       /\ ~resp.hasModel => session.idrac_version = 10
       /\ outcome.how = "returned"
       /\ outcome.value = ToString(session.idrac_version)

\* C14 witness: a Model holding both "14" and "12" was classified 8
C14_Witness ==
  /\ top = "initialize"
  /\ pc = "ending"
  /\ req.state = "returned"
  /\ resp.status = 200
  /\ resp.Model = <<"1", "4", "1", "2">>
  /\ session.idrac_version = 8

\* the action URIs by prefix
NewerUris == {"OemManager.ExportSystemConfiguration", "OemManager.ImportSystemConfiguration"}
OlderUris == {"EID_674_Manager.ExportSystemConfiguration",
              "EID_674_Manager.ImportSystemConfiguration"}

\* the action URIs built by the call in progress
BuiltUris ==
  { w[2] : w \in { x \in wire : x[1] = "POST" } }
    \cup (IF req.purpose = "submit" THEN {req.uri} ELSE {})

\* C15: every action URI built has the newer prefix exactly when the
\* session's generation is 10 and the older one for 8 and 9, and none is
\* built while the generation is unset.
C15_PrefixFollowsGeneration ==
  /\ pc \in {"exp_post", "imp_post"} => session.idrac_version # 0
  /\ \A u \in BuiltUris :
       /\ session.idrac_version # 0
       /\ u \in NewerUris \cup OlderUris
       /\ u \in NewerUris <=> session.idrac_version = 10
       /\ u \in OlderUris <=> session.idrac_version \in {8, 9}

\* C15 witness: the export POST of a generation 9 session went to the older
\* prefix
C15_Witness ==
  /\ session.idrac_version = 9
  /\ <<"POST", "EID_674_Manager.ExportSystemConfiguration">> \in wire

\* C16: the body of the export POST carries IncludeInExport exactly when
\* include is not Default and the generation is 9 or 10; never for 8.
C16_IncludeFromNine ==
  (top = "export" /\ req.purpose = "submit") =>
    /\ req.body \in {"plain", "IncludeInExport=" \o exp.include}
    /\ req.body # "plain" <=>
         (exp.include # "Default" /\ session.idrac_version \in {9, 10})
    /\ session.idrac_version = 8 => req.body = "plain"

\* C16 witness: IncludeReadOnly was asked of a generation 8 controller and
\* the POST went out without the field
C16_Witness ==
  /\ top = "export"
  /\ req.purpose = "submit"
  /\ req.made >= 1
  /\ exp.include = "IncludeReadOnly"
  /\ session.idrac_version = 8
  /\ req.body = "plain"

\* C17: in export_scp poll_job starts only from a POST response with status
\* 200 or 202 and a Location header; after any other response the export ends
\* with an error: no status request, no second POST, no file.
C17_StatusOnlyAfterAccepted ==
  /\ []((top = "export" /\ req.purpose = "submit" /\ req.state = "returned"
           /\ (resp.status \notin {200, 202} \/ ~resp.Location)) =>
          /\ pc \in {"exp_resp", "ending"}
          /\ <<"GET", "Tasks">> \notin wire
          /\ poll.state = "idle"
          /\ written = "none"
          /\ req.answered = 1
          /\ pc = "ending" => outcome.how = "raised" /\ outcome.exc = "RuntimeError")
  /\ []((top = "export" /\ <<"GET", "Tasks">> \in wire) => poll.state # "idle")
  /\ [][(top = "export" /\ poll.state = "idle" /\ poll'.state # "idle") =>
          /\ pc = "exp_resp"
          /\ resp.status \in {200, 202}
          /\ resp.Location]_vars

\* C17 witness: an export whose POST was answered 202 without Location ended
C17_Witness ==
  /\ top = "export"
  /\ pc = "ending"
  /\ req.purpose = "submit"
  /\ resp.status = 202
  /\ ~resp.Location
  /\ outcome.exc = "RuntimeError"

\* C18 (as claimed): an export whose job reported a terminal state other than
\* Completed raises the error that carries the job's messages, joined in
\* order, and writes no file; a file is written only for a Completed job and
\* holds the non-empty payload extracted.
C18_FailedJobCarriesMessages ==
  /\ (top = "export" /\ pc = "ending" /\ poll.state \in {"returned", "raised"}
        /\ resp.json
        /\ TaskStateOf(resp) \in {"CompletedWithErrors", "Failed", "Exception"}) =>
       /\ outcome.how = "raised"
       /\ outcome.exc = "RuntimeError"
       /\ outcome.value = TaskStateOf(resp) \o ": " \o JoinMessages(MessagesOf(resp))
       /\ written = "none"
  /\ written # "none" =>
       /\ TaskStateOf(resp) = "Completed"
       /\ written # ""
       /\ written = exp.scp_content

\* the vendor field of the first message that has one
FirstProfile(messages) ==
  messages[CHOOSE k \in ProfileHits(messages) : \A l \in ProfileHits(messages) : k <= l].profile

\* _extract_scp_content was applied to resp
Extracted == exp.export_format # "none"

\* C19 (as claimed): when a message carries the vendor field,
\* _extract_scp_content returns the field of the first such message,
\* unmodified, for XML and for JSON.
C19_ProfileUnmodified ==
  (Extracted /\ ProfileHits(MessagesOf(resp)) # {}) =>
    exp.scp_content = FirstProfile(MessagesOf(resp))

\* C19 (amended): when a message carries the vendor field,
\* _extract_scp_content takes the field of the first such message and returns
\* it unmodified for XML, and its JSON serialisation (json.dumps, which
\* quotes and escapes a string) for JSON.
C19_ProfileAsIsForXml ==
  (Extracted /\ ProfileHits(MessagesOf(resp)) # {}) =>
    /\ exp.strategy = 1
    /\ exp.export_format = "XML" => exp.scp_content = FirstProfile(MessagesOf(resp))
    /\ exp.export_format = "JSON" =>
         /\ exp.scp_content = "\"" \o FirstProfile(MessagesOf(resp)) \o "\""
         /\ exp.scp_content # FirstProfile(MessagesOf(resp))

\* C19 witness: two messages carry the field, the format is JSON, and the
\* first one's field was written, serialised
C19_Witness ==
  /\ Extracted
  /\ exp.export_format = "JSON"
  /\ resp.Messages = <<MsgProfile, MsgProfile2>>
  /\ written = "\"SCP1\""

\* C20 (as claimed): the payload is that of the first strategy, in the order
\* vendor field, message text, raw scan, that yields one, a later strategy
\* being consulted exactly when every earlier one yielded none; when none
\* yields one the export raises the empty-payload error and writes no file.
C20_FallbackOrder ==
  Extracted =>
    LET messages == MessagesOf(resp)
        s1 == FromProfile(messages, exp.export_format)
        s2 == FromMessageText(messages, exp.export_format)
        s3 == FromRawScan(messages, exp.export_format)
    IN /\ exp.scp_content = (IF s1 # "" THEN s1 ELSE IF s2 # "" THEN s2 ELSE s3)
       /\ exp.strategy # 1 <=> s1 = ""
       /\ exp.strategy \in {0, 3} <=> (s1 = "" /\ s2 = "")
       /\ exp.scp_content = "" =>
            /\ outcome.how = "raised"
            /\ outcome.value = "empty"
            /\ written = "none"

\* an entry expand_targets raises on by design: not an address, not a range,
\* or a range whose start is above its end
Faulty(entry) ==
  entry.kind = "malformed" \/ (entry.kind = "range" /\ entry.a > entry.b)

\* the addresses of entries, each range inclusive and ascending, in the order
\* of the entries
RECURSIVE Inclusive(_)
Inclusive(entries) ==
  IF entries = <<>> THEN <<>>
  ELSE LET entry == Head(entries)
       IN [k \in 1..(entry.b - entry.a + 1) |-> entry.a + k - 1] \o Inclusive(Tail(entries))

\* C21 (as claimed): when no entry is malformed or inverted, expand_targets
\* returns, and the list holds every entry's addresses in input order, a range
\* a-b with a <= b giving a, a+1, ..., b, whatever b is (the largest address
\* included), duplicates kept; when some entry is malformed or inverted it
\* raises and returns no list, an inverted range raising the range error.
C21_RangesExpand ==
  expand.state \in {"returned", "raised"} =>
    LET ts == expand.targets
        faulty == { k \in 1..Len(ts) : Faulty(ts[k]) }
    IN IF faulty = {}
         THEN /\ expand.state = "returned"
              /\ expand.expanded = Inclusive(ts)
         ELSE LET first == CHOOSE k \in faulty : \A j \in faulty : k <= j
              IN /\ expand.state = "raised"
                 /\ ts[first].kind = "range" => expand.exc = "ValueError"

\* what ends a run on a fault of the configuration: a group with no source
\* endpoint, with no targets, with a range expand_targets raises on, with no
\* template file, or missing credentials
ConfigErrors == {"source_ip", "targets", "range", "template", "template_file", "credentials"}

\* a request has gone to some controller
NetworkUsed == \E k \in 1..Len(cli.log) : cli.log[k].net

\* C22 (as claimed): when the export or the import command ends on a
\* configuration error, no request has been sent to any controller, whichever
\* group of the configuration holds the error.
C22_ConfigErrorsBeforeNetwork ==
  (/\ cli.pos = "exited"
   /\ cli.command \in {"export", "import"}
   /\ cli.why \in ConfigErrors)
    => ~NetworkUsed

\* import_scp_to_targets is between two targets, or has done the last one
BetweenTargets == pc \in {"tgt_loop", "tgt_done"}

\* C23: import_scp_to_targets handles the targets in the supplied order, one
\* at a time: while target idx+1 is handled, the outcomes of exactly the
\* targets before it are recorded, in order, and everything on the wire was
\* sent through the session of that target; between two targets nothing is
\* on the wire and no request is under way.  The session of a target is a
\* new IdracSession for that target's address: when its import_scp call
\* begins it has no generation and has probed nothing.
C23_OneTargetAtATime ==
  top = "targets" =>
    /\ idx <= Len(targets)
    /\ Len(calls) = idx
    /\ \A k \in 1..idx : calls[k].ip = targets[k]
    /\ BetweenTargets => wire = {} /\ req = NoReq
    /\ ~BetweenTargets =>
         /\ idx < Len(targets)
         /\ session.kind = "IdracSession"
         /\ session.ip = targets[idx + 1]
         /\ pc = "imp_entry" => session.idrac_version = 0 /\ ~session.probed200

\* C23 witness: the first target's outcome is recorded and the import_scp
\* call of the second one, another address, begins with its own session
C23_Witness ==
  /\ top = "targets"
  /\ idx = 1
  /\ Len(calls) = 1
  /\ pc = "imp_entry"
  /\ targets[2] # targets[1]
  /\ session.ip = targets[2]
  /\ session.idrac_version = 0

\* C24 (as claimed): a poll_job call whose status requests have all returned
\* a response ends only by returning a terminal state or by raising the
\* timeout error, whatever the responses were.
C24_PollEndsByReturnOrTimeout ==
  (poll.state \notin {"idle", "running"} /\ req.state # "raised") =>
    poll.state \in {"returned", "timeout"}

\* a running poll_job ends
PollJobEnds == (poll.state = "running") ~> (poll.state # "running")

\* cmd_import leaves its loop other than on a fault of the configuration
ImportLeaves ==
  /\ cli.pos = "imp_loop"
  /\ cli'.pos # "imp_loop"
  /\ cli'.why \notin ConfigErrors

\* the calls cmd_import has made when it leaves its loop: the last gi ones
ImportCalls == SubSeq(cli.log, Len(cli.log) - cli.gi + 1, Len(cli.log))

\* C25: when cmd_import leaves its loop it has called import_scp_to_targets
\* for every selected group, in order, whatever the earlier groups' outcomes
\* were, and it returns True exactly when every one of these calls recorded
\* success for all its targets; the import command then exits with status 0
\* if cmd_import returned True and with status 1 if it returned False.
C25_ImportVerdict ==
  [][ImportLeaves =>
       /\ cli.gi = Len(cli.sel)
       /\ cli.gi <= Len(cli.log)
       /\ cli'.log = cli.log
       /\ \A j \in 1..cli.gi :
            /\ ImportCalls[j].op = "import"
            /\ ImportCalls[j].group = cli.groups[cli.sel[j]].name
       /\ cli'.ret \in {"True", "False"}
       /\ cli'.ret = "True" <=> \A j \in 1..cli.gi : ImportCalls[j].ok
       /\ cli.command = "import" =>
            /\ cli'.pos = "exited"
            /\ cli'.exit = "0" <=> cli'.ret = "True"
            /\ cli'.exit = "1" <=> cli'.ret = "False"]_vars

\* C25 witness: the import command has ended with status 1 after cmd_import
\* returned False: the first group's import failed and the second group was
\* imported all the same
C25_Witness ==
  /\ cli.pos = "exited"
  /\ cli.command = "import"
  /\ cli.ret = "False"
  /\ cli.exit = "1"
  /\ Len(cli.log) = 2
  /\ cli.log[1].op = "import" /\ cli.log[1].group = GroupName(1) /\ ~cli.log[1].ok
  /\ cli.log[2].op = "import" /\ cli.log[2].group = GroupName(2)

\* the pipeline step call j of the log belongs to: the index of the last
\* "step" entry before it, 0 when there is none
StepOf(j) ==
  LET before == { k \in 1..(j - 1) : cli.log[k].op = "step" }
  IN IF before = {} THEN 0 ELSE CHOOSE k \in before : \A m \in before : m <= k

\* call j was made by the apply command or by an apply step of the pipeline
InApply(j) ==
  \/ cli.command = "apply"
  \/ StepOf(j) > 0 /\ cli.log[StepOf(j)].group = "apply"

\* C26: an import call of apply comes after the exports of all selected
\* groups, all of which returned, and no export of the same apply follows it;
\* it imports from the file that this apply's export of the same group
\* returned; and an export that raises is the last call of the run, so no
\* import follows it.
C26_ExportsBeforeImports ==
  \A j \in 1..Len(cli.log) :
    /\ (cli.log[j].op = "import" /\ InApply(j)) =>
         LET exports == { k \in (StepOf(j) + 1)..(j - 1) : cli.log[k].op = "export" }
             selected == Selected(cli.groups, cli.group_arg)
         IN /\ \A i \in 1..Len(selected) :
                 \E k \in exports : /\ cli.log[k].group = cli.groups[selected[i]].name
                                    /\ cli.log[k].ok
            /\ \E k \in exports : /\ cli.log[k].group = cli.log[j].group
                                  /\ cli.log[k].file = cli.log[j].file
            /\ \A k \in (j + 1)..Len(cli.log) :
                 cli.log[k].op = "export" => StepOf(k) > j
    /\ (cli.log[j].op = "export" /\ ~cli.log[j].ok) =>
         /\ j = Len(cli.log)
         /\ cli.pos = "exited"
         /\ cli.exit = "raised"

\* C26 witness: apply on two groups has ended: both exports, then the import
\* of each group from its own exported file
C26_Witness ==
  /\ cli.pos = "exited"
  /\ cli.command = "apply"
  /\ Len(cli.log) = 4
  /\ cli.log[1].op = "export" /\ cli.log[1].group = GroupName(1)
  /\ cli.log[2].op = "export" /\ cli.log[2].group = GroupName(2)
  /\ cli.log[3].op = "import" /\ cli.log[3].group = GroupName(1)
  /\ cli.log[3].file = cli.log[1].file
  /\ cli.log[4].op = "import" /\ cli.log[4].group = GroupName(2)
  /\ cli.log[4].file = cli.log[2].file

\* an export of apply has raised after another group's export returned: the
\* run is over and nothing was imported
C26_ExportRaised ==
  /\ cli.pos = "exited"
  /\ cli.command = "apply"
  /\ Len(cli.log) = 2
  /\ cli.log[1].op = "export" /\ cli.log[1].ok
  /\ cli.log[2].op = "export" /\ ~cli.log[2].ok

IsStep(e) == e.op = "step"
\* the names of the pipeline steps begun so far, in the order they began
StepsBegun ==
  LET begun == SelectSeq(cli.log, IsStep)
  IN [k \in 1..Len(begun) |-> begun[k].group]

\* call j is one that makes its step fail: a validate that found a controller
\* unreachable, or an import with a failed target
FailingCall(j) == cli.log[j].op \in {"validate", "import"} /\ ~cli.log[j].ok

\* C27: in a pipeline run with an unknown step name nothing is ever executed
\* and the run ends with status 1; the steps begun are always the first ones
\* of pipeline.steps, in the listed order; no step begins after a call that
\* makes its step fail, the run then ending before a later step and not with
\* status 0; and a run that ends with status 0 has begun every step.
C27_PipelineStopsAtFirstFailure ==
  cli.command = "pipeline" =>
    /\ (\E k \in 1..Len(cli.steps) : cli.steps[k] \notin ValidSteps) =>
         /\ cli.log = <<>>
         /\ cli.pos = "exited" => cli.exit = "1"
    /\ Len(StepsBegun) <= Len(cli.steps)
    /\ StepsBegun = SubSeq(cli.steps, 1, Len(StepsBegun))
    /\ \A j \in 1..Len(cli.log) :
         FailingCall(j) =>
           /\ \A k \in (j + 1)..Len(cli.log) : ~IsStep(cli.log[k])
           /\ cli.pos \notin {"pipe_step", "pipe_check", "main"}
           /\ cli.pos = "exited" => cli.exit # "0"
    /\ (cli.pos = "exited" /\ cli.exit = "0") => StepsBegun = cli.steps

\* C27 witness: the first step, an import, had a failed target, and the run
\* has ended with status 1 without beginning the second step, an export
C27_Witness ==
  /\ cli.command = "pipeline"
  /\ cli.steps = <<"import", "export">>
  /\ cli.pos = "exited"
  /\ cli.exit = "1"
  /\ StepsBegun = <<"import">>
  /\ FailingCall(Len(cli.log))

\* both steps of a pipeline have run, in the listed order
C27_BothStepsRan ==
  /\ cli.command = "pipeline"
  /\ cli.steps = <<"validate", "export">>
  /\ cli.pos = "exited"
  /\ cli.exit = "0"
  /\ StepsBegun = <<"validate", "export">>

====
